---- MODULE Spec2Model ----
(***************************************************************************)
(* ThriveMuse: the /lipsync request handler (api_server.py) and the job    *)
(* runner run_musetalk (musetalk_wrapper.py), with the file system both    *)
(* act on: the scratch results directory, the fallback results directory   *)
(* of the MuseTalk installation, and the per-request temporary files.      *)
(*                                                                         *)
(* A job is one POST /lipsync request.  Each job walks through the         *)
(* handler and, inside it, through run_musetalk; the external inference    *)
(* subprocess is a black box that reads the task descriptor it was given   *)
(* and writes files.  Spec runs the jobs one at a time; SpecConc lets the  *)
(* handler threads interleave.                                             *)
(***************************************************************************)
EXTENDS Integers, Sequences, FiniteSets, TLC

\* ------------------------------------------------------------------ bounds
MaxJobs    == 2    \* requests served in one run of the server
NumThreads == 2    \* handler threads of the server
NumNames == 2      \* distinct video file names per directory (sort rank)
MaxSize  == 2      \* video sizes 1..MaxSize
MaxClock == 2      \* writes of video files by subprocesses, each at a new mtime

\* ------------------------------------------------- constants of the program
ListCap == 200     \* the [:200] of the diagnostic listings

Threads == 1..NumThreads
Names == 1..NumNames
Sizes == 1..MaxSize

\* non-video files a subprocess may leave in the results directory, and
\* dot-prefixed .mp4 entries under the fallback root (rglob lists them,
\* glob does not): values on both sides of the listing cap
JunkCounts   == {0, 198}
HiddenCounts == {0, 201}

VARIABLES
  \* --- environment
  rootExists,      \* MUSETALK_PATH is a directory
  weights,         \* one of the two sd-vae weight files exists
  fallbackExists,  \* MUSETALK_PATH/results exists
  fbHidden,        \* dot-prefixed .mp4 entries under the fallback root
  faults,          \* the OS may fail an operation (disk, device, permissions)
  \* --- results directory (TEMP_DIR)
  resultDirExists,
  yaml,            \* content of <results_dir>/my_test.yaml, or NoYaml
  logFiles,        \* which of stdout.log, stderr.log exist
  junk,            \* other non-video files in the results directory
  resultVideos,    \* name -> file, the *.mp4 under the results directory
  fallbackVideos,  \* name -> file, the *.mp4 under the fallback root
  clock,           \* file-system time: the mtime of the last video written
  \* --- temporary files of the handler
  tmp,             \* per thread: the temp files of its request that exist
  served,          \* requests received so far
  \* --- per handler thread (locals of its current invocation)
  job,             \* the request the thread serves (0: none yet)
  outContent,      \* the video at the thread's output path (NoFile: empty)
  pc,
  req,             \* what the client sent
  audioBound,      \* 'audio_path' in locals()
  outBound,        \* 'output_path' in locals()
  invoked,         \* run_musetalk was called
  result,          \* what run_musetalk returned, or NoResult
  response,        \* the responses the handler returned (a sequence)
  raised,          \* the handler's except clause ran
  returncode,      \* proc.returncode, or NoRc
  seen,            \* the two directories as the search found them
  best,            \* the selected file: [dir, name], or NoBest
  runLogs,         \* run_logs' directory listings: [rdFiles, fbFiles]
  moved,           \* what Path(best).replace moved: [dir, name, file]
  consumed,        \* the task descriptor the job's subprocess read
  effects,         \* side effects of the job's run_musetalk call
  overlapped       \* another job was inside run_musetalk at the same time

vars == << rootExists, weights, fallbackExists, fbHidden, faults, resultDirExists, yaml,
           logFiles, junk, resultVideos, fallbackVideos, clock, tmp, served, job,
           outContent,
           pc, req, audioBound, outBound, invoked, result, response, raised,
           returncode, seen, best, runLogs, moved, consumed, effects, overlapped >>

envVars == << rootExists, weights, fbHidden, faults >>
dirVars == << resultDirExists, yaml, logFiles, junk, resultVideos,
              fallbackVideos, fallbackExists, clock >>

\* ------------------------------------------------------------------ values
NoFile   == [size |-> 0, mtime |-> 0, job |-> 0]
NoYaml   == [video_path |-> << >>, audio_path |-> << >>, bbox_shift |-> -1]
NoResult == [success |-> FALSE, output |-> << >>, error |-> "no result",
             rdFiles |-> -1, fbFiles |-> -1]
NoBest   == [dir |-> "none", name |-> 0]
NoRc     == -1
NoDir    == [n \in Names |-> NoFile]
NoSeen   == [searched |-> FALSE, results |-> NoDir, fallback |-> NoDir]
NoLogs   == [rdFiles |-> -1, fbFiles |-> -1]
NoMove   == [dir |-> "none", name |-> 0, file |-> NoFile]
EmptyYaml == [video_path |-> << >>, audio_path |-> << >>, bbox_shift |-> 0]

AVATAR_VIDEO_PATH == << "/", "app", "/", "assets", "/", "avatar_video.mp4" >>
AudioPath(j)  == << "/", "tmp", "/", "audio" \o ToString(j) \o ".mp3" >>
OutputPath(j) == << "/", "tmp", "/", "out" \o ToString(j) \o ".mp4" >>
SdVaeBin == "/app/MuseTalk/models/sd-vae/diffusion_pytorch_model.bin"

\* str(e) of the exceptions os.chdir and Path.replace raise
ChdirError   == "[Errno 2] No such file or directory: '/app/MuseTalk'"
ReplaceError == "[Errno 18] Invalid cross-device link"

\* ------------------------------------------------------- pure functions
\* str.replace("\\", "/") on a path, one component at a time
Normalize(path) == [i \in DOMAIN path |-> IF path[i] = "\\" THEN "/" ELSE path[i]]

\* (mutant) the two paths under each other's key
make_temp_yaml_swapped(audio_path, image_path) ==
  [video_path |-> Normalize(audio_path),
   audio_path |-> Normalize(image_path),
   bbox_shift |-> 0]

\* The one-task document written to my_test.yaml.
make_temp_yaml(audio_path, image_path) ==
  [video_path |-> Normalize(image_path),
   audio_path |-> Normalize(audio_path),
   bbox_shift |-> 0]

\* (mutant) the weight check always passes
WeightsNotChecked == [ok |-> TRUE, missing |-> ""]

\* (ok, missing): either weight-file variant present, else the .bin path.
check_required_weights ==
  IF weights THEN [ok |-> TRUE, missing |-> ""]
  ELSE [ok |-> FALSE, missing |-> SdVaeBin]

\* sorted(glob(dir/**/*.mp4)): the names present, ascending.
RECURSIVE SortedSeq(_)
SortedSeq(S) ==
  IF S = {} THEN << >>
  ELSE LET m == CHOOSE x \in S : \A y \in S : x <= y
       IN  << m >> \o SortedSeq(S \ {m})

Glob(dir) == SortedSeq({n \in Names : dir[n] # NoFile})

\* (mutant) the key with its components the other way round: (mtime, size)
KeyLessByMtime(f, g) ==
  \/ f.mtime < g.mtime
  \/ f.mtime = g.mtime /\ f.size < g.size

\* key=lambda p: (st_size, st_mtime), compared as Python compares tuples
KeyLess(f, g) ==
  \/ f.size < g.size
  \/ f.size = g.size /\ f.mtime < g.mtime

\* max(paths, key=...): the first element no later one is strictly greater than
RECURSIVE MaxFrom(_, _, _, _)
MaxFrom(paths, dir, i, cur) ==
  IF i > Len(paths) THEN cur
  ELSE IF KeyLess(dir[cur], dir[paths[i]])
       THEN MaxFrom(paths, dir, i + 1, paths[i])
       ELSE MaxFrom(paths, dir, i + 1, cur)

PyMax(paths, dir) == MaxFrom(paths, dir, 2, paths[1])

\* (mutant) the fallback root is searched whatever the first glob found
UseFallbackAlways(mp4s) == TRUE

\* `if not mp4s:` -- the fallback root is searched only then
UseFallback(mp4s) == mp4s = << >>

\* (mutant) a copy: the source stays
ReplacedAsCopy(dir, name) == dir

\* the directory after Path(best).replace(output_path): a rename, the
\* source is gone
Replaced(dir, name) == [dir EXCEPT ![name] = NoFile]

\* (mutant) the listing without its [:200]
Uncapped(n) == n

\* len(listing[:200]) for a listing of n entries
Capped(n) == IF n > ListCap THEN ListCap ELSE n

\* files rglob("*") finds in the results directory
ResultDirFileCount ==
  junk + Cardinality(logFiles) + (IF yaml # NoYaml THEN 1 ELSE 0)
       + Cardinality({n \in Names : resultVideos[n] # NoFile})

\* entries rglob("*.mp4") finds under the fallback root
FallbackMp4Count ==
  fbHidden + Cardinality({n \in Names : fallbackVideos[n] # NoFile})

\* The dicts run_musetalk returns ("output" is a key of the success dict only).
Failure(err) ==
  [success |-> FALSE, output |-> << >>, error |-> err, rdFiles |-> -1, fbFiles |-> -1]

FailureListed(err, rd, fb) ==
  [success |-> FALSE, output |-> << >>, error |-> err, rdFiles |-> rd, fbFiles |-> fb]

\* (mutant) the success dict without its "output" key
SuccessWithoutOutput(output_path, rd, fb) ==
  [success |-> TRUE, output |-> << >>, error |-> "", rdFiles |-> rd, fbFiles |-> fb]

Success(output_path, rd, fb) ==
  [success |-> TRUE, output |-> output_path, error |-> "", rdFiles |-> rd, fbFiles |-> fb]

\* The (body, status) pairs create_lipsync returns.
Resp400(msg) ==
  [status |-> 400, error |-> msg, details |-> "", file |-> << >>, video |-> NoFile]
\* (mutant) the details default in place of the runner's error
RespJobFailedUnknown(r) ==
  [status |-> 500, error |-> "MuseTalk processing failed", details |-> "Unknown error",
   file |-> << >>, video |-> NoFile]

RespJobFailed(r) ==
  [status |-> 500, error |-> "MuseTalk processing failed", details |-> r.error,
   file |-> << >>, video |-> NoFile]
RespServerError ==
  [status |-> 500, error |-> "Server error", details |-> "", file |-> << >>,
   video |-> NoFile]
RespFile(path, content) ==
  [status |-> 200, error |-> "", details |-> "", file |-> path, video |-> content]

\* ------------------------------------------------------------------- Init
Init ==
  /\ rootExists \in BOOLEAN
  /\ weights \in BOOLEAN
  /\ weights => rootExists
  /\ fallbackExists \in BOOLEAN
  /\ fallbackExists => rootExists
  /\ fbHidden \in HiddenCounts
  /\ fbHidden > 0 => fallbackExists
  /\ faults = TRUE
  /\ resultDirExists = FALSE
  /\ yaml = NoYaml
  /\ logFiles = {}
  /\ junk = 0
  /\ resultVideos = NoDir
  /\ fallbackVideos = NoDir
  /\ clock = 0
  /\ tmp = [t \in Threads |-> {}]
  /\ served = 0
  /\ job = [t \in Threads |-> 0]
  /\ outContent = [t \in Threads |-> NoFile]
  /\ pc = [t \in Threads |-> "idle"]
  /\ req = [t \in Threads |-> "none"]
  /\ audioBound = [t \in Threads |-> FALSE]
  /\ outBound = [t \in Threads |-> FALSE]
  /\ invoked = [t \in Threads |-> FALSE]
  /\ result = [t \in Threads |-> NoResult]
  /\ response = [t \in Threads |-> << >>]
  /\ raised = [t \in Threads |-> FALSE]
  /\ returncode = [t \in Threads |-> NoRc]
  /\ seen = [t \in Threads |-> NoSeen]
  /\ best = [t \in Threads |-> NoBest]
  /\ runLogs = [t \in Threads |-> NoLogs]
  /\ moved = [t \in Threads |-> NoMove]
  /\ consumed = [t \in Threads |-> NoYaml]
  /\ effects = [t \in Threads |-> {}]
  /\ overlapped = [t \in Threads |-> FALSE]

\* ----------------------------------------------------- the request handler
runVars == << invoked, result, returncode, seen, best, runLogs, moved, consumed, effects >>

\* the thread is inside run_musetalk
InRunner(p) == p \in {"precheck", "yaml", "launch", "running", "logs", "search", "move"}

\* overlapped records, for each invocation, whether another thread was
\* inside run_musetalk while it was; fresh is TRUE when t starts one.
Overlap(t, fresh) ==
  overlapped' = [i \in Threads |->
                   IF fresh /\ i = t THEN FALSE
                   ELSE \/ overlapped[i]
                        \/ InRunner(pc'[i]) /\ \E k \in Threads \ {i} : InRunner(pc'[k])]

\* an exception reaches `except Exception` (api_server.py:66-67)
Except(t) ==
  /\ response' = [response EXCEPT ![t] = Append(@, RespServerError)]
  /\ raised' = [raised EXCEPT ![t] = TRUE]
  /\ pc' = [pc EXCEPT ![t] = "finally"]

\* lines 24-31: a request arrives at a free thread (the lowest one) and is
\* validated.  r is what the client sent; serial is TRUE when the server
\* handles one request at a time.
Receive(t, serial) ==
  /\ pc[t] = "idle"
  /\ served < MaxJobs
  /\ \A k \in 1..(t - 1) : pc[k] # "idle"
  /\ serial => \A k \in Threads : pc[k] = "idle"
  /\ served' = served + 1
  /\ job' = [job EXCEPT ![t] = served + 1]
  /\ \E r \in {"no_field", "empty_filename", "disconnected", "ok"} :
       /\ req' = [req EXCEPT ![t] = r]
       /\ CASE r = "no_field" ->
                 /\ response' = [response EXCEPT ![t] = << Resp400("No audio file provided") >>]
                 /\ pc' = [pc EXCEPT ![t] = "finally"]
                 /\ UNCHANGED raised
            [] r = "empty_filename" ->
                 /\ response' = [response EXCEPT ![t] = << Resp400("No audio file selected") >>]
                 /\ pc' = [pc EXCEPT ![t] = "finally"]
                 /\ UNCHANGED raised
            [] r = "disconnected" -> Except(t)
            [] OTHER ->
                 /\ pc' = [pc EXCEPT ![t] = "save"]
                 /\ UNCHANGED << response, raised >>
  /\ UNCHANGED << envVars, dirVars, tmp, outContent, audioBound, outBound, runVars >>
  /\ Overlap(t, TRUE)

\* lines 34-36: NamedTemporaryFile(delete=False) creates the audio temp file,
\* the upload is saved into it, and only then is audio_path bound.
SaveUpload(t) ==
  /\ pc[t] = "save"
  /\ \E outcome \in IF faults THEN {"create_raises", "save_raises", "ok"} ELSE {"ok"} :
       CASE outcome = "create_raises" ->
              /\ Except(t)
              /\ UNCHANGED << tmp, audioBound >>
         [] outcome = "save_raises" ->
              /\ tmp' = [tmp EXCEPT ![t] = @ \cup {AudioPath(job[t])}]
              /\ Except(t)
              /\ UNCHANGED audioBound
         [] OTHER ->
              /\ tmp' = [tmp EXCEPT ![t] = @ \cup {AudioPath(job[t])}]
              /\ audioBound' = [audioBound EXCEPT ![t] = TRUE]
              /\ pc' = [pc EXCEPT ![t] = "placeholder"]
              /\ UNCHANGED << response, raised >>
  /\ UNCHANGED << served, job, req >>
  /\ UNCHANGED << envVars, dirVars, outContent, outBound, runVars >>
  /\ Overlap(t, FALSE)

\* lines 39-40: the empty output placeholder.
CreatePlaceholder(t) ==
  /\ pc[t] = "placeholder"
  /\ \E outcome \in IF faults THEN {"create_raises", "ok"} ELSE {"ok"} :
       IF outcome = "create_raises"
       THEN /\ Except(t)
            /\ UNCHANGED << tmp, outBound, invoked >>
       ELSE /\ tmp' = [tmp EXCEPT ![t] = @ \cup {OutputPath(job[t])}]
            /\ outBound' = [outBound EXCEPT ![t] = TRUE]
            /\ invoked' = [invoked EXCEPT ![t] = TRUE]
            /\ pc' = [pc EXCEPT ![t] = "precheck"]
            /\ UNCHANGED << response, raised >>
  /\ UNCHANGED << served, job, req >>
  /\ UNCHANGED << envVars, dirVars, outContent, audioBound, result, returncode,
                  seen, best, runLogs, moved, consumed, effects >>
  /\ Overlap(t, FALSE)

\* ------------------------------------------------------------ run_musetalk
handlerVars == << tmp, outContent, audioBound, outBound, invoked, response, raised >>

\* run_musetalk returns r to the handler
Return(t, r) ==
  /\ result' = [result EXCEPT ![t] = r]
  /\ pc' = [pc EXCEPT ![t] = "respond"]

\* lines 51-59: PATH, os.chdir(MUSETALK_PATH) (raises when the root is
\* missing), then the weight check.
Precheck(t) ==
  /\ pc[t] = "precheck"
  /\ IF ~rootExists
     THEN Return(t, Failure(ChdirError))
     ELSE IF ~check_required_weights.ok
     THEN Return(t, Failure("Missing required weight file: " \o check_required_weights.missing))
     ELSE /\ pc' = [pc EXCEPT ![t] = "yaml"]
          /\ UNCHANGED result
  /\ UNCHANGED << served, job, req >>
  /\ UNCHANGED << envVars, dirVars, handlerVars, returncode, seen, best,
                  runLogs, moved, consumed, effects >>
  /\ Overlap(t, FALSE)

\* lines 62-68: mkdir(parents, exist_ok) and the write of my_test.yaml.
\* A write that raises leaves the file as it was (open failed) or
\* truncated (open succeeded).
WriteYaml(t) ==
  /\ pc[t] = "yaml"
  /\ \E outcome \in IF faults THEN {"mkdir_raises", "write_raises", "ok"} ELSE {"ok"} :
       CASE outcome = "mkdir_raises" ->
              /\ ~resultDirExists
              /\ Return(t, Failure("mkdir raised"))
              /\ UNCHANGED << resultDirExists, yaml, effects >>
         [] outcome = "write_raises" ->
              /\ resultDirExists' = TRUE
              /\ yaml' \in {yaml, EmptyYaml}
              /\ effects' = [effects EXCEPT ![t] = @ \cup {"mkdir"}]
              /\ Return(t, Failure("write_text raised"))
         [] OTHER ->
              /\ resultDirExists' = TRUE
              /\ yaml' = make_temp_yaml(AudioPath(job[t]), AVATAR_VIDEO_PATH)
              /\ effects' = [effects EXCEPT ![t] = @ \cup {"mkdir", "my_test.yaml"}]
              /\ pc' = [pc EXCEPT ![t] = "launch"]
              /\ UNCHANGED result
  /\ UNCHANGED << served, job, req >>
  /\ UNCHANGED << envVars, logFiles, junk, resultVideos, fallbackVideos,
                  fallbackExists, clock, handlerVars, returncode, seen, best,
                  runLogs, moved, consumed >>
  /\ Overlap(t, FALSE)

\* line 87: subprocess.run starts the inference tool, which reads the
\* document --inference_config names; starting it can raise (no interpreter).
Launch(t) ==
  /\ pc[t] = "launch"
  /\ \E outcome \in IF faults THEN {"launch_raises", "ok"} ELSE {"ok"} :
       IF outcome = "launch_raises"
       THEN /\ Return(t, Failure("subprocess could not be started"))
            /\ UNCHANGED << consumed, effects >>
       ELSE /\ consumed' = [consumed EXCEPT ![t] = yaml]
            /\ effects' = [effects EXCEPT ![t] = @ \cup {"subprocess"}]
            /\ pc' = [pc EXCEPT ![t] = "running"]
            /\ UNCHANGED result
  /\ UNCHANGED << served, job, req >>
  /\ UNCHANGED << envVars, dirVars, handlerVars, returncode, seen, best,
                  runLogs, moved >>
  /\ Overlap(t, FALSE)

\* The running tool writes a video, under the results directory or under
\* its own default results root, at the next file-system time.
SubprocWrite(t) ==
  /\ pc[t] = "running"
  /\ clock < MaxClock
  /\ clock' = clock + 1
  /\ \E d \in {"results", "fallback"}, n \in Names, s \in Sizes :
       LET f == [size |-> s, mtime |-> clock + 1, job |-> job[t]] IN
       IF d = "results"
       THEN /\ resultVideos' = [resultVideos EXCEPT ![n] = f]
            /\ UNCHANGED << fallbackVideos, fallbackExists >>
       ELSE /\ fallbackVideos' = [fallbackVideos EXCEPT ![n] = f]
            /\ fallbackExists' = TRUE
            /\ UNCHANGED resultVideos
  /\ UNCHANGED << served, job, req >>
  /\ UNCHANGED << envVars, resultDirExists, yaml, logFiles, junk, handlerVars,
                  pc, result, returncode, seen, best, runLogs, moved, consumed,
                  effects >>
  /\ Overlap(t, FALSE)

\* lines 87-93, 146-147: the tool ends (having possibly left other files
\* behind): killed at the 900 s timeout, or exited with a return code.
SubprocEnd(t) ==
  /\ pc[t] = "running"
  /\ \E n \in JunkCounts : n >= junk /\ junk' = n
  /\ \E outcome \in {"timeout", "nonzero", "zero"} :
       IF outcome = "timeout"
       THEN /\ Return(t, Failure("MuseTalk timeout expired"))
            /\ UNCHANGED returncode
       ELSE /\ returncode' = [returncode EXCEPT ![t] = IF outcome = "zero" THEN 0 ELSE 1]
            /\ pc' = [pc EXCEPT ![t] = "logs"]
            /\ UNCHANGED result
  /\ UNCHANGED << served, job, req >>
  /\ UNCHANGED << envVars, resultDirExists, yaml, logFiles, resultVideos,
                  fallbackVideos, fallbackExists, clock, handlerVars, seen, best,
                  runLogs, moved, consumed, effects >>
  /\ Overlap(t, FALSE)

\* lines 95-114: best-effort stdout.log then stderr.log (written holds the
\* files written before a write raised), then the return-code test.
WriteLogs(t) ==
  /\ pc[t] = "logs"
  /\ \E written \in IF faults THEN {{}, {"stdout.log"}, {"stdout.log", "stderr.log"}}
                             ELSE {{"stdout.log", "stderr.log"}} :
       /\ logFiles' = logFiles \cup written
       /\ effects' = [effects EXCEPT ![t] = @ \cup written]
  /\ IF returncode[t] # 0
     THEN Return(t, Failure("MuseTalk returned non-zero"))
     ELSE /\ pc' = [pc EXCEPT ![t] = "search"]
          /\ UNCHANGED result
  /\ UNCHANGED << served, job, req >>
  /\ UNCHANGED << envVars, resultDirExists, yaml, junk, resultVideos,
                  fallbackVideos, fallbackExists, clock, handlerVars, returncode,
                  seen, best, runLogs, moved, consumed >>
  /\ Overlap(t, FALSE)

\* lines 117-139: the glob of the results directory, the fallback glob and
\* the listings when it is empty, and the choice of best.
Search(t) ==
  /\ pc[t] = "search"
  /\ LET mp4s == Glob(resultVideos)
         fallback_mp4s == IF fallbackExists THEN Glob(fallbackVideos) ELSE << >>
         found == [searched |-> TRUE, results |-> resultVideos, fallback |-> fallbackVideos]
         listed == [rdFiles |-> Capped(ResultDirFileCount),
                    fbFiles |-> IF fallbackExists THEN Capped(FallbackMp4Count) ELSE -1]
     IN  IF ~UseFallback(mp4s)
         THEN /\ seen' = [seen EXCEPT ![t] = found]
              /\ best' = [best EXCEPT ![t] = [dir |-> "results", name |-> PyMax(mp4s, resultVideos)]]
              /\ pc' = [pc EXCEPT ![t] = "move"]
              /\ UNCHANGED << result, runLogs >>
         ELSE IF fallback_mp4s # << >>
         THEN /\ seen' = [seen EXCEPT ![t] = found]
              /\ best' = [best EXCEPT ![t] = [dir |-> "fallback", name |-> PyMax(fallback_mp4s, fallbackVideos)]]
              /\ runLogs' = [runLogs EXCEPT ![t] = listed]
              /\ pc' = [pc EXCEPT ![t] = "move"]
              /\ UNCHANGED result
         ELSE /\ runLogs' = [runLogs EXCEPT ![t] = listed]
              /\ seen' = [seen EXCEPT ![t] = found]
              /\ Return(t, FailureListed("No MP4 found in result_dir", listed.rdFiles, listed.fbFiles))
              /\ UNCHANGED best
  /\ UNCHANGED << served, job, req >>
  /\ UNCHANGED << envVars, dirVars, handlerVars, returncode, moved, consumed, effects >>
  /\ Overlap(t, FALSE)

\* lines 134-135, 142-144: Path(best).replace(output_path).  It raises when
\* best is gone, and can raise for the file system's own reasons (another
\* device, permissions); the except clause at 148-150 returns the failure.
Move(t) ==
  /\ pc[t] = "move"
  /\ LET dir == IF best[t].dir = "results" THEN resultVideos ELSE fallbackVideos
         f   == dir[best[t].name]
     IN  \E replaced \in IF faults THEN {f # NoFile, FALSE} ELSE {f # NoFile} :
           IF replaced
           THEN /\ IF best[t].dir = "results"
                   THEN /\ resultVideos' = Replaced(resultVideos, best[t].name)
                        /\ UNCHANGED fallbackVideos
                   ELSE /\ fallbackVideos' = Replaced(fallbackVideos, best[t].name)
                        /\ UNCHANGED resultVideos
                /\ outContent' = [outContent EXCEPT ![t] = f]
                /\ tmp' = [tmp EXCEPT ![t] = @ \cup {OutputPath(job[t])}]
                /\ moved' = [moved EXCEPT ![t] = [dir |-> best[t].dir, name |-> best[t].name, file |-> f]]
                /\ Return(t, Success(OutputPath(job[t]), runLogs[t].rdFiles, runLogs[t].fbFiles))
           ELSE /\ Return(t, Failure(ReplaceError))
                /\ UNCHANGED << resultVideos, fallbackVideos, outContent, tmp, moved >>
  /\ UNCHANGED << served, job, req >>
  /\ UNCHANGED << envVars, resultDirExists, yaml, logFiles, junk, fallbackExists,
                  clock, audioBound, outBound, invoked, response, raised,
                  returncode, seen, best, runLogs, consumed, effects >>
  /\ Overlap(t, FALSE)

\* ------------------------------------------- the handler, after the runner
\* run_musetalk has returned: its frame (and what is recorded of its run) is gone
RunnerFrameGone(t) ==
  /\ returncode' = [returncode EXCEPT ![t] = NoRc]
  /\ seen' = [seen EXCEPT ![t] = NoSeen]
  /\ best' = [best EXCEPT ![t] = NoBest]
  /\ runLogs' = [runLogs EXCEPT ![t] = NoLogs]
  /\ moved' = [moved EXCEPT ![t] = NoMove]
  /\ consumed' = [consumed EXCEPT ![t] = NoYaml]
  /\ effects' = [effects EXCEPT ![t] = {}]

\* lines 49-64: os.unlink(audio_path), then the file response (send_file
\* opens the video at result["output"]) or the 500 with the runner's error.
Respond(t) ==
  /\ pc[t] = "respond"
  /\ \E unlinked \in IF faults THEN BOOLEAN ELSE {TRUE} :
       IF ~unlinked
       THEN /\ Except(t)
            /\ UNCHANGED tmp
       ELSE /\ tmp' = [tmp EXCEPT ![t] = @ \ {AudioPath(job[t])}]
            /\ IF result[t].success
               THEN IF result[t].output \in tmp[t]
                    THEN /\ response' = [response EXCEPT ![t] =
                                           Append(@, RespFile(result[t].output, outContent[t]))]
                         /\ pc' = [pc EXCEPT ![t] = "finally"]
                         /\ UNCHANGED raised
                    ELSE Except(t)
               ELSE /\ response' = [response EXCEPT ![t] = Append(@, RespJobFailed(result[t]))]
                    /\ pc' = [pc EXCEPT ![t] = "finally"]
                    /\ UNCHANGED raised
  /\ RunnerFrameGone(t)
  /\ UNCHANGED << served, job, req >>
  /\ UNCHANGED << envVars, dirVars, outContent, audioBound, outBound, invoked, result >>
  /\ Overlap(t, FALSE)

\* lines 68-76: the cleanup; an unlink that raises ends it (except: pass).
\* The handler then returns and its locals are gone.
Finally(t) ==
  /\ pc[t] = "finally"
  /\ \E ok1 \in IF faults THEN BOOLEAN ELSE {TRUE}, ok2 \in IF faults THEN BOOLEAN ELSE {TRUE} :
       LET tryAudio == audioBound[t] /\ AudioPath(job[t]) \in tmp[t]
           afterAudio == IF tryAudio /\ ok1 THEN tmp[t] \ {AudioPath(job[t])} ELSE tmp[t]
           tryOut == ~(tryAudio /\ ~ok1) /\ outBound[t] /\ OutputPath(job[t]) \in tmp[t]
       IN  tmp' = [tmp EXCEPT ![t] = IF tryOut /\ ok2 THEN afterAudio \ {OutputPath(job[t])}
                                     ELSE afterAudio]
  /\ pc' = [pc EXCEPT ![t] = "done"]
  /\ audioBound' = [audioBound EXCEPT ![t] = FALSE]
  /\ outBound' = [outBound EXCEPT ![t] = FALSE]
  /\ invoked' = [invoked EXCEPT ![t] = FALSE]
  /\ result' = [result EXCEPT ![t] = NoResult]
  /\ outContent' = [outContent EXCEPT ![t] = NoFile]
  /\ UNCHANGED << served, job, req >>
  /\ UNCHANGED << envVars, dirVars, returncode, seen, best, runLogs, moved,
                  consumed, effects, response, raised >>
  /\ Overlap(t, FALSE)

\* The handler has returned: the framework sends the one response it
\* returned and the thread is free again.  What the finished request left
\* in the temp directory is not followed further (its names are its own).
Sent(t) ==
  /\ pc[t] = "done"
  /\ pc' = [pc EXCEPT ![t] = "idle"]
  /\ req' = [req EXCEPT ![t] = "none"]
  /\ response' = [response EXCEPT ![t] = << >>]
  /\ raised' = [raised EXCEPT ![t] = FALSE]
  /\ tmp' = [tmp EXCEPT ![t] = {}]
  /\ UNCHANGED << served, job >>
  /\ UNCHANGED << envVars, dirVars, outContent, audioBound, outBound, runVars >>
  /\ Overlap(t, FALSE)

\* ------------------------------------------------------ the specifications
Step(t, serial) ==
  \/ Receive(t, serial)
  \/ SaveUpload(t)
  \/ CreatePlaceholder(t)
  \/ Precheck(t)
  \/ WriteYaml(t)
  \/ Launch(t)
  \/ SubprocWrite(t)
  \/ SubprocEnd(t)
  \/ WriteLogs(t)
  \/ Search(t)
  \/ Move(t)
  \/ Respond(t)
  \/ Finally(t)
  \/ Sent(t)

\* one request at a time
Next == \E t \in Threads : Step(t, TRUE)

Spec == Init /\ [][Next]_vars

\* the handler threads of concurrent requests interleave
NextConc == \E t \in Threads : Step(t, FALSE)

InitConc ==
  /\ rootExists = TRUE
  /\ weights = TRUE
  /\ fallbackExists = FALSE
  /\ fbHidden = 0
  /\ faults = FALSE
  /\ resultDirExists = FALSE
  /\ yaml = NoYaml
  /\ logFiles = {}
  /\ junk = 0
  /\ resultVideos = NoDir
  /\ fallbackVideos = NoDir
  /\ clock = 0
  /\ tmp = [t \in Threads |-> {}]
  /\ served = 0
  /\ job = [t \in Threads |-> 0]
  /\ outContent = [t \in Threads |-> NoFile]
  /\ pc = [t \in Threads |-> "idle"]
  /\ req = [t \in Threads |-> "none"]
  /\ audioBound = [t \in Threads |-> FALSE]
  /\ outBound = [t \in Threads |-> FALSE]
  /\ invoked = [t \in Threads |-> FALSE]
  /\ result = [t \in Threads |-> NoResult]
  /\ response = [t \in Threads |-> << >>]
  /\ raised = [t \in Threads |-> FALSE]
  /\ returncode = [t \in Threads |-> NoRc]
  /\ seen = [t \in Threads |-> NoSeen]
  /\ best = [t \in Threads |-> NoBest]
  /\ runLogs = [t \in Threads |-> NoLogs]
  /\ moved = [t \in Threads |-> NoMove]
  /\ consumed = [t \in Threads |-> NoYaml]
  /\ effects = [t \in Threads |-> {}]
  /\ overlapped = [t \in Threads |-> FALSE]

SpecConc == InitConc /\ [][NextConc]_vars


\* ================================================================ claims
\* Unless said otherwise a claim is checked under Spec, at the state in
\* which run_musetalk has just returned to the handler (pc = "respond").

Returned(t) == pc[t] = "respond"
Present(dir) == {n \in Names : dir[n] # NoFile}
MissingWeightError == "Missing required weight file: " \o SdVaeBin
OwnDescriptor(t) ==
  [video_path |-> AVATAR_VIDEO_PATH, audio_path |-> AudioPath(job[t]), bbox_shift |-> 0]

\* C1: whatever run_musetalk returns (missing weights, non-zero exit,
\* timeout, output not found, an exception, success from either directory),
\* the dict has an output path if and only if its success flag is true.
C1_OutputIffSuccess ==
  \A t \in Threads :
    Returned(t) => (result[t].success <=> result[t].output # << >>)

\* a success that relocated a video found under the fallback root
C1_Witness ==
  \E t \in Threads :
    Returned(t) /\ result[t].success /\ moved[t].dir = "fallback"

\* C2 as claimed: with neither weight file present the call returns the
\* failure naming the expected weight path, and has no side effect.
C2_Original ==
  \A t \in Threads :
    (Returned(t) /\ ~weights) =>
      /\ result[t] = Failure(MissingWeightError)
      /\ effects[t] = {}

\* C2 amended: with neither weight file present the call fails without ever
\* creating the results directory, writing my_test.yaml or the logs, or
\* starting the subprocess; the failure names the expected weight path when
\* the installation root exists, and is os.chdir's error when it does not.
C2_MissingWeights ==
  ~weights =>
    /\ ~resultDirExists /\ yaml = NoYaml /\ logFiles = {}
    /\ \A t \in Threads :
         /\ effects[t] = {}
         /\ pc[t] \notin {"yaml", "launch", "running", "logs", "search", "move"}
         /\ Returned(t) =>
              /\ ~result[t].success
              /\ result[t].error = IF rootExists THEN MissingWeightError ELSE ChdirError

\* the installation is there, the weights are not, and the call has returned
C2_Witness ==
  \E t \in Threads :
    Returned(t) /\ ~weights /\ rootExists /\ result[t].error = MissingWeightError

\* the directory the selection was made in, as the search found it
SelectedDir(t) == IF best[t].dir = "results" THEN seen[t].results ELSE seen[t].fallback

\* C3: the selected file is a maximum of the candidates under the
\* lexicographic order on (size, mtime): no candidate is larger, and no
\* candidate of the same size is more recently modified.
C3_LargestThenNewest ==
  \A t \in Threads :
    (pc[t] \in {"move", "respond"} /\ best[t] # NoBest) =>
      LET d == SelectedDir(t)
          b == d[best[t].name]
      IN  /\ best[t].name \in Present(d)
          /\ \A n \in Present(d) :
               \/ d[n].size < b.size
               \/ d[n].size = b.size /\ d[n].mtime <= b.mtime

\* two candidates, the selected one larger and older than the other
C3_Witness ==
  \E t \in Threads :
    /\ pc[t] = "move"
    /\ LET d == SelectedDir(t)
           b == d[best[t].name]
       IN  \E n \in Present(d) : d[n].size < b.size /\ d[n].mtime > b.mtime

\* exit 0, and the search found exactly one video under the results directory
C4_Case(t) ==
  /\ Returned(t)
  /\ returncode[t] = 0
  /\ seen[t].searched
  /\ Cardinality(Present(seen[t].results)) = 1

C4_Moved(t, n) ==
  /\ result[t].success
  /\ result[t].output = OutputPath(job[t])
  /\ OutputPath(job[t]) \in tmp[t]
  /\ outContent[t] = seen[t].results[n]
  /\ resultVideos[n] = NoFile

\* C4 as claimed: exit 0 and exactly one video under the results directory
\* give success with the caller's output path, the video at that path, and
\* no file left at its original location.
C4_Original ==
  \A t \in Threads :
    C4_Case(t) => \A n \in Present(seen[t].results) : C4_Moved(t, n)

\* C4 amended: ... unless Path.replace raises, and then the call returns
\* failure with the exception's string, the video is still at its original
\* location and the output path still holds the empty placeholder.
C4_MovedNotCopied ==
  \A t \in Threads :
    C4_Case(t) =>
      \A n \in Present(seen[t].results) :
        \/ C4_Moved(t, n)
        \/ /\ ~result[t].success
           /\ result[t].error = ReplaceError
           /\ resultVideos[n] = seen[t].results[n]
           /\ outContent[t] = NoFile
           /\ moved[t] = NoMove

C4_Witness ==
  \E t \in Threads : C4_Case(t) /\ result[t].success

\* the fallback root is consulted only after exit 0 with no video under the
\* results directory
C5_FallbackOnlyWhenEmpty(t) ==
  moved[t].dir = "fallback" =>
    /\ returncode[t] = 0
    /\ seen[t].searched
    /\ Present(seen[t].results) = {}

\* videos under the results directory: the relocated one is one of them and
\* the fallback root is left as it was
C5_ResultsFirst(t) ==
  (seen[t].searched /\ Present(seen[t].results) # {}) =>
    /\ best[t].dir = "results"
    /\ moved[t].dir # "fallback"
    /\ fallbackVideos = seen[t].fallback

\* the (size, mtime)-maximal fallback video is selected
C5_FallbackMax(t) ==
  /\ best[t].dir = "fallback"
  /\ best[t].name \in Present(seen[t].fallback)
  /\ \A n \in Present(seen[t].fallback) :
       LET b == seen[t].fallback[best[t].name]
           f == seen[t].fallback[n]
       IN  f.size < b.size \/ (f.size = b.size /\ f.mtime <= b.mtime)

C5_FallbackRelocated(t) ==
  /\ result[t].success
  /\ outContent[t] = seen[t].fallback[best[t].name]
  /\ fallbackVideos[best[t].name] = NoFile

C5_FallbackCase(t) ==
  seen[t].searched /\ Present(seen[t].results) = {} /\ Present(seen[t].fallback) # {}

\* C5 as claimed: the fallback is consulted only when the results directory
\* holds no video; results videos win over any fallback video; and with
\* none under results and some under the fallback root the maximal fallback
\* video is relocated and the call succeeds.
C5_Original ==
  \A t \in Threads :
    Returned(t) =>
      /\ C5_FallbackOnlyWhenEmpty(t)
      /\ C5_ResultsFirst(t)
      /\ C5_FallbackCase(t) => (C5_FallbackMax(t) /\ C5_FallbackRelocated(t))

\* C5 amended: ... the maximal fallback video is selected, and is relocated
\* with the call succeeding unless Path.replace raises; then the call
\* fails and the fallback root is left as it was.
C5_FallbackOrder ==
  \A t \in Threads :
    Returned(t) =>
      /\ C5_FallbackOnlyWhenEmpty(t)
      /\ C5_ResultsFirst(t)
      /\ C5_FallbackCase(t) =>
           /\ C5_FallbackMax(t)
           /\ \/ C5_FallbackRelocated(t)
              \/ /\ ~result[t].success
                 /\ result[t].error = ReplaceError
                 /\ moved[t] = NoMove
                 /\ fallbackVideos = seen[t].fallback

\* a video under the results directory was relocated although the fallback
\* root held a larger and newer one
C5_Witness ==
  \E t \in Threads :
    /\ Returned(t)
    /\ moved[t].dir = "results"
    /\ \E n \in Present(seen[t].fallback) :
         /\ seen[t].fallback[n].size > moved[t].file.size
         /\ seen[t].fallback[n].mtime > moved[t].file.mtime

\* C6: exit 0 and no video under either directory: the call returns the
\* "No MP4 found" failure, moves nothing, and its logs list the files of the
\* results directory, at most 200 of them (and, when the fallback root
\* exists, at most 200 entries of it).
C6_OutputNotFound ==
  \A t \in Threads :
    (Returned(t) /\ returncode[t] = 0 /\ seen[t].searched
       /\ Present(seen[t].results) = {} /\ Present(seen[t].fallback) = {}) =>
      /\ ~result[t].success
      /\ result[t].error = "No MP4 found in result_dir"
      /\ moved[t] = NoMove
      /\ resultVideos = NoDir /\ fallbackVideos = NoDir
      /\ outContent[t] = NoFile
      /\ result[t].rdFiles \in 0..ListCap
      /\ result[t].rdFiles = IF ResultDirFileCount < ListCap THEN ResultDirFileCount ELSE ListCap
      /\ IF fallbackExists
         THEN /\ result[t].fbFiles \in 0..ListCap
              /\ result[t].fbFiles = IF FallbackMp4Count < ListCap THEN FallbackMp4Count ELSE ListCap
         ELSE result[t].fbFiles = -1

\* both listings were cut: more than 200 files in each directory
C6_Witness ==
  \E t \in Threads :
    /\ Returned(t)
    /\ result[t].error = "No MP4 found in result_dir"
    /\ ResultDirFileCount > ListCap
    /\ FallbackMp4Count > ListCap

\* C7: once the handler has returned, on whatever path, the temporary files
\* it created for the request (audio, output placeholder) no longer exist.
C7_TempFilesReleased ==
  \A t \in Threads :
    pc[t] = "done" => AudioPath(job[t]) \notin tmp[t] /\ OutputPath(job[t]) \notin tmp[t]

C9_DescriptorRace ==
  \A t \in Threads :
    (consumed[t] # NoYaml /\ consumed[t] # OwnDescriptor(t)) => overlapped[t]

\* a subprocess started with the descriptor naming the other job's audio
C9_Witness ==
  \E t \in Threads :
    \E u \in Threads \ {t} :
      /\ consumed[t] # NoYaml
      /\ job[u] # job[t]
      /\ consumed[t].audio_path = AudioPath(job[u])

\* C10: the video a successful call moved to its output path was written by
\* that call's own subprocess.
C10_OwnVideo ==
  \A t \in Threads :
    (Returned(t) /\ result[t].success) => outContent[t].job = job[t]

====
